---- MODULE Spec2Model ----
(***************************************************************************)
(* Model of the todo package: the item store (todo/todo.py, TodoList and   *)
(* TodoItem) and the pattern store (todo/patterns.py, PatternManager),     *)
(* each an in-memory collection backed by one JSON file.                   *)
(*                                                                         *)
(* Strings are sequences of one-character strings, so that startswith,     *)
(* slicing and concatenation are computed.  A timestamp is the isoformat   *)
(* string of the clock reading.  A Python list is a sequence; a Python     *)
(* dict is the sequence of its (key, value) pairs in insertion order.      *)
(* A method that returns "a record or None" returns Some(record) or        *)
(* Absent.  A file is [kind, data]: kind says what opening and parsing it  *)
(* does, data is the parsed JSON document when there is one.               *)
(*                                                                         *)
(* No method of one store reads or writes the other store's object or      *)
(* file, so a behaviour exercises one store, chosen initially (fixture),   *)
(* on a file with any of the contents its loader distinguishes.  call and  *)
(* old record the last call and the state it started from, so that what a  *)
(* method returns and changes can be stated as a property of one state.    *)
(***************************************************************************)
EXTENDS Integers, Sequences, FiniteSets, TLC

VARIABLES
    fixture,        \* which store the session exercises (tests' fixtures)
    constructed,    \* the store object exists (its __init__ returned)
    storage,        \* content of the file at TodoList.storage_path
    items,          \* TodoList.items
    config,         \* content of the file at PatternManager.config_path
    patterns,       \* PatternManager.patterns, when it is a dict
    patterns_type,  \* Python type of PatternManager.patterns: "dict" or "list"
    written,        \* the fixture's file was last written by a store's save
    now,            \* the clock read by datetime.now()
    call,           \* the last call: its name, arguments, time and outcome
    old,            \* the stores and files as they were when that call began
    cli             \* the command-line invocations (processes running main)

vars == <<fixture, constructed, storage, items, config, patterns,
          patterns_type, written, now, call, old, cli>>

---------------------------------------------------------------------------
(* Bounds of the model *)

MaxItems == 2
MaxTime == 2
MaxPatterns == 2

---------------------------------------------------------------------------
(* Values *)

None == "None"
JsonNull == "null"
Absent == <<>>
Some(x) == <<x>>

isoformat(t) == ToString(t)

\* Python truthiness of a string-or-None value, as used by `created_at or ...`
Falsy(v) == v = None \/ v = ""

BuyGroceries == <<"B">>
WalkTheDog == <<"W">>
ItemTexts == {BuyGroceries, WalkTheDog}

Indices == (0 - MaxItems) .. (MaxItems + 1)

---------------------------------------------------------------------------
(* Files *)

File(kind, data) == [kind |-> kind, data |-> data]
Missing == File("missing", <<>>)
Unreadable == File("unreadable", <<>>)
BadJson == File("badjson", <<>>)
BadUtf8 == File("badutf8", <<>>)
Empty == File("empty", <<>>)
JsonScalar == File("scalar", <<>>)
JsonArray(data) == File("array", data)
JsonObject(members) == File("object", members)

\* json.dump / json.load on a value that is a string or None / null
json_encode(v) == IF v = None THEN JsonNull ELSE v
json_decode(v) == IF v = JsonNull THEN None ELSE v

\* The keys of an item's dictionary whose value is a string or None
Nullable == {"created_at", "completed_at"}

\* json.dump / json.load on one dictionary of the item file
json_dump_dict(d) ==
    [k \in DOMAIN d |-> IF k \in Nullable THEN json_encode(d[k]) ELSE d[k]]
json_load_dict(obj) ==
    [k \in DOMAIN obj |-> IF k \in Nullable THEN json_decode(obj[k]) ELSE obj[k]]

\* dict.get(key, default)
get(d, key, default) == IF key \in DOMAIN d THEN d[key] ELSE default

---------------------------------------------------------------------------
(* TodoItem *)

TodoItem(text, completed, created_at, completed_at, t) ==
    [text |-> text,
     completed |-> completed,
     created_at |-> IF Falsy(created_at) THEN isoformat(t) ELSE created_at,
     completed_at |-> completed_at]

\* mark_complete that keeps the completion time of a completed item
mark_complete_once(item, t) ==
    IF item.completed THEN item
    ELSE [item EXCEPT !.completed = TRUE, !.completed_at = isoformat(t)]

mark_complete(item, t) ==
    [item EXCEPT !.completed = TRUE, !.completed_at = isoformat(t)]

\* mark_incomplete that leaves the completion time in place
mark_incomplete_keeps_time(item) == [item EXCEPT !.completed = FALSE]

mark_incomplete(item) ==
    [item EXCEPT !.completed = FALSE, !.completed_at = None]

\* to_dict that leaves completed_at out
to_dict_without_completed_at(item) ==
    [text |-> item.text,
     completed |-> item.completed,
     created_at |-> item.created_at]

to_dict(item) ==
    [text |-> item.text,
     completed |-> item.completed,
     created_at |-> item.created_at,
     completed_at |-> item.completed_at]

from_dict(data, t) ==
    TodoItem(data.text,
             get(data, "completed", FALSE),
             get(data, "created_at", None),
             get(data, "completed_at", None),
             t)

---------------------------------------------------------------------------
(* Python list indexing *)

\* The 1-based position that list[index] and list.pop(index) address; 0 when
\* Python raises IndexError.  A negative index counts from the end.
ListPos(its, index) ==
    LET k == IF index < 0 THEN index + Len(its) + 1 ELSE index + 1
    IN  IF k \in 1..Len(its) THEN k ELSE 0

Without(its, k) == SubSeq(its, 1, k - 1) \o SubSeq(its, k + 1, Len(its))

RECURSIVE Filter(_, _)
\* [item for item in its if item.completed = flag]
Filter(its, flag) ==
    IF its = <<>> THEN <<>>
    ELSE IF Head(its).completed = flag
         THEN <<Head(its)>> \o Filter(Tail(its), flag)
         ELSE Filter(Tail(its), flag)

---------------------------------------------------------------------------
(* TodoList: every method is an operator from the object's state (its items
   and its file) and the arguments to the outcome of the call, a record
   [items, file, ret, saved, exc]: exc is the exception that escapes ("" for
   none) and saved says whether save() ran. *)

Outcome(its, file, ret, saved, exc) ==
    [items |-> its, file |-> file, ret |-> ret, saved |-> saved, exc |-> exc]

\* The range test without its lower bound
InRange_no_lower(index, its) == index < Len(its)

\* The range test of remove, complete and uncomplete
InRange(index, its) == 0 <= index /\ index < Len(its)

save(its) ==
    JsonArray([i \in 1..Len(its) |-> json_dump_dict(to_dict(its[i]))])

\* The outcome of load(): [exc, items]
load(file, t) ==
    IF file.kind = "missing" THEN [exc |-> "", items |-> <<>>]
    ELSE IF file.kind = "unreadable" THEN [exc |-> "", items |-> <<>>]
    ELSE IF file.kind \in {"badjson", "empty"}
         THEN [exc |-> "", items |-> <<>>]
    ELSE IF file.kind = "badutf8"
         THEN [exc |-> "UnicodeDecodeError", items |-> <<>>]
    ELSE IF file.kind = "scalar" THEN [exc |-> "TypeError", items |-> <<>>]
    ELSE IF \E i \in 1..Len(file.data) : "text" \notin DOMAIN file.data[i]
         THEN [exc |-> "KeyError", items |-> <<>>]
    ELSE [exc |-> "",
          items |-> [i \in 1..Len(file.data) |->
                        from_dict(json_load_dict(file.data[i]), t)]]

\* add that puts the new record first
add_in_front(its, file, text, t) ==
    LET item == TodoItem(text, FALSE, None, None, t)
        its2 == <<item>> \o its
    IN  Outcome(its2, save(its2), item, TRUE, "")

\* add that does not save
add_without_save(its, file, text, t) ==
    LET item == TodoItem(text, FALSE, None, None, t)
    IN  Outcome(Append(its, item), file, item, FALSE, "")

add(its, file, text, t) ==
    LET item == TodoItem(text, FALSE, None, None, t)
        its2 == Append(its, item)
    IN  Outcome(its2, save(its2), item, TRUE, "")

\* remove that pops the last record whatever the index
remove_last(its, file, index) ==
    IF InRange(index, its)
    THEN Outcome(Without(its, Len(its)), save(Without(its, Len(its))),
                 Some(its[Len(its)]), TRUE, "")
    ELSE Outcome(its, file, Absent, FALSE, "")

remove(its, file, index) ==
    IF InRange(index, its)
    THEN LET k == ListPos(its, index)
         IN  IF k = 0 THEN Outcome(its, file, Absent, FALSE, "IndexError")
             ELSE Outcome(Without(its, k), save(Without(its, k)),
                          Some(its[k]), TRUE, "")
    ELSE Outcome(its, file, Absent, FALSE, "")

complete(its, file, index, t) ==
    IF InRange(index, its)
    THEN LET k == ListPos(its, index)
         IN  IF k = 0 THEN Outcome(its, file, FALSE, FALSE, "IndexError")
             ELSE LET its2 == [its EXCEPT ![k] = mark_complete(its[k], t)]
                  IN  Outcome(its2, save(its2), TRUE, TRUE, "")
    ELSE Outcome(its, file, FALSE, FALSE, "")

uncomplete(its, file, index) ==
    IF InRange(index, its)
    THEN LET k == ListPos(its, index)
         IN  IF k = 0 THEN Outcome(its, file, FALSE, FALSE, "IndexError")
             ELSE LET its2 == [its EXCEPT ![k] = mark_incomplete(its[k])]
                  IN  Outcome(its2, save(its2), TRUE, TRUE, "")
    ELSE Outcome(its, file, FALSE, FALSE, "")

\* clear_completed that saves only when it removed something
clear_completed_lazy_save(its, file) ==
    LET its2 == Filter(its, FALSE)
    IN  IF Len(its2) = Len(its) THEN Outcome(its, file, 0, FALSE, "")
        ELSE Outcome(its2, save(its2), Len(its) - Len(its2), TRUE, "")

clear_completed(its, file) ==
    LET original_count == Len(its)
        its2 == Filter(its, FALSE)
    IN  Outcome(its2, save(its2), original_count - Len(its2), TRUE, "")

list_all(its, file) ==
    Outcome(its, file, [i \in 1..Len(its) |-> its[i]], FALSE, "")

\* list_pending without its filter
list_pending_unfiltered(its, file) == Outcome(its, file, its, FALSE, "")

list_pending(its, file) == Outcome(its, file, Filter(its, FALSE), FALSE, "")

list_completed(its, file) == Outcome(its, file, Filter(its, TRUE), FALSE, "")

---------------------------------------------------------------------------
(* The calls on the item store *)

Snapshot ==
    [items |-> items, storage |-> storage, patterns |-> patterns,
     config |-> config, constructed |-> constructed]

Call(op, index, prefix, text, r) ==
    [op |-> op, index |-> index, prefix |-> prefix, text |-> text,
     time |-> now, ret |-> r.ret, saved |-> r.saved, exc |-> r.exc]

TodoApply(op, index, text, r) ==
    /\ items' = r.items
    /\ storage' = r.file
    /\ call' = Call(op, index, <<>>, text, r)
    /\ old' = Snapshot
    /\ written' = (written \/ r.saved)
    /\ UNCHANGED <<fixture, constructed, config, patterns, patterns_type, now,
                   cli>>

\* TodoList(storage_path): a fresh object on the file
NewTodoList ==
    /\ fixture = "todo_list"
    /\ LET l == load(storage, now)
       IN  /\ items' = l.items
           /\ constructed' = (l.exc = "")
           /\ call' = Call("TodoList", 0, <<>>, <<>>,
                            Outcome(l.items, storage, Absent, FALSE, l.exc))
    /\ old' = Snapshot
    /\ UNCHANGED <<fixture, storage, config, patterns, patterns_type, written,
                   now, cli>>

Add(text) ==
    /\ fixture = "todo_list" /\ constructed
    /\ Len(items) < MaxItems
    /\ TodoApply("add", 0, text, add(items, storage, text, now))

Remove(index) ==
    /\ fixture = "todo_list" /\ constructed
    /\ TodoApply("remove", index, <<>>, remove(items, storage, index))

Complete(index) ==
    /\ fixture = "todo_list" /\ constructed
    /\ TodoApply("complete", index, <<>>, complete(items, storage, index, now))

Uncomplete(index) ==
    /\ fixture = "todo_list" /\ constructed
    /\ TodoApply("uncomplete", index, <<>>, uncomplete(items, storage, index))

ClearCompleted ==
    /\ fixture = "todo_list" /\ constructed
    /\ TodoApply("clear_completed", 0, <<>>, clear_completed(items, storage))

ListAll ==
    /\ fixture = "todo_list" /\ constructed
    /\ TodoApply("list_all", 0, <<>>, list_all(items, storage))

ListPending ==
    /\ fixture = "todo_list" /\ constructed
    /\ TodoApply("list_pending", 0, <<>>, list_pending(items, storage))

ListCompleted ==
    /\ fixture = "todo_list" /\ constructed
    /\ TodoApply("list_completed", 0, <<>>, list_completed(items, storage))

\* Time passes between two calls
Tick ==
    /\ now < MaxTime
    /\ now' = now + 1
    /\ UNCHANGED <<fixture, constructed, storage, items, config, patterns,
                   patterns_type, written, call, old, cli>>

---------------------------------------------------------------------------
(* Strings and Python dicts *)

\* A comparison of the whole text in place of startswith
startswith_whole(text, prefix) == text = prefix

startswith(text, prefix) ==
    /\ Len(prefix) <= Len(text)
    /\ SubSeq(text, 1, Len(prefix)) = prefix

\* text[n:]
SliceFrom(text, n) == SubSeq(text, n + 1, Len(text))

DictKeys(d) == {d[i][1] : i \in 1..Len(d)}
DictHas(d, k) == k \in DictKeys(d)
DictPos(d, k) == CHOOSE i \in 1..Len(d) : d[i][1] = k
DictGet(d, k) == IF DictHas(d, k) THEN Some(d[DictPos(d, k)][2]) ELSE Absent

\* d[k] = v: an existing key keeps its place, a new key goes last
DictSet(d, k, v) ==
    IF DictHas(d, k) THEN [d EXCEPT ![DictPos(d, k)] = <<k, v>>]
    ELSE Append(d, <<k, v>>)

\* del d[k]
DictDel(d, k) == Without(d, DictPos(d, k))

RECURSIVE json_load_object(_)
\* json.load of an object: its members are inserted in the order read
json_load_object(members) ==
    IF members = <<>> THEN <<>>
    ELSE LET n == Len(members)
         IN  DictSet(json_load_object(SubSeq(members, 1, n - 1)),
                     members[n][1], members[n][2])

\* json.dump of a dict: its items in insertion order
json_dump_object(d) == JsonObject(d)

---------------------------------------------------------------------------
(* PatternManager: as for TodoList, every method is an operator to the
   outcome [items, file, ret, saved, exc], items being the patterns.  type is
   the Python type of self.patterns, which load_patterns takes from the file
   as json.load returns it. *)

save_patterns(pats) == json_dump_object(pats)

\* The outcome of load_patterns(): [exc, patterns, type]
load_patterns(file) ==
    IF file.kind \in {"missing", "unreadable", "badjson", "empty"}
    THEN [exc |-> "", patterns |-> <<>>, type |-> "dict"]
    ELSE IF file.kind = "badutf8"
         THEN [exc |-> "UnicodeDecodeError", patterns |-> <<>>, type |-> "dict"]
    ELSE IF file.kind = "array"
         THEN [exc |-> "", patterns |-> <<>>, type |-> "list"]
    ELSE [exc |-> "", patterns |-> json_load_object(file.data), type |-> "dict"]

\* add_pattern that deletes a stored prefix before it sets it
add_pattern_reinsert(pats, type, file, prefix, full_text) ==
    IF type # "dict" THEN Outcome(pats, file, Absent, FALSE, "TypeError")
    ELSE LET kept == IF DictHas(pats, prefix) THEN DictDel(pats, prefix)
                     ELSE pats
             pats2 == Append(kept, <<prefix, full_text>>)
         IN  Outcome(pats2, save_patterns(pats2), Absent, TRUE, "")

add_pattern(pats, type, file, prefix, full_text) ==
    IF type # "dict" THEN Outcome(pats, file, Absent, FALSE, "TypeError")
    ELSE LET pats2 == DictSet(pats, prefix, full_text)
         IN  Outcome(pats2, save_patterns(pats2), Absent, TRUE, "")

\* remove_pattern that saves whether or not the prefix was stored
remove_pattern_always_saves(pats, type, file, prefix) ==
    IF type = "dict" /\ DictHas(pats, prefix)
    THEN LET pats2 == DictDel(pats, prefix)
         IN  Outcome(pats2, save_patterns(pats2), TRUE, TRUE, "")
    ELSE Outcome(pats, save_patterns(pats), FALSE, TRUE, "")

remove_pattern(pats, type, file, prefix) ==
    IF type = "dict" /\ DictHas(pats, prefix)
    THEN LET pats2 == DictDel(pats, prefix)
         IN  Outcome(pats2, save_patterns(pats2), TRUE, TRUE, "")
    ELSE Outcome(pats, file, FALSE, FALSE, "")

get_pattern(pats, prefix) == DictGet(pats, prefix)

list_patterns(pats) == [i \in 1..Len(pats) |-> pats[i]]

RECURSIVE find_matching_patterns(_, _)
find_matching_patterns(pats, partial_prefix) ==
    IF pats = <<>> THEN <<>>
    ELSE (IF startswith(Head(pats)[1], partial_prefix)
          THEN <<Head(pats)>> ELSE <<>>)
         \o find_matching_patterns(Tail(pats), partial_prefix)

\* expand_text by the longest stored prefix the text starts with
expand_text_longest(pats, text) ==
    LET hits == {i \in 1..Len(pats) : startswith(text, pats[i][1])}
    IN  IF hits = {} THEN text
        ELSE LET i == CHOOSE h \in hits :
                          \A g \in hits : Len(pats[g][1]) <= Len(pats[h][1])
             IN  pats[i][2] \o SliceFrom(text, Len(pats[i][1]))

RECURSIVE expand_text(_, _)
expand_text(pats, text) ==
    IF pats = <<>> THEN text
    ELSE LET prefix == Head(pats)[1]
             full_text == Head(pats)[2]
         IN  IF startswith(text, prefix)
             THEN LET remainder == SliceFrom(text, Len(prefix))
                  IN  IF remainder # <<>> THEN full_text \o remainder
                      ELSE full_text
             ELSE expand_text(Tail(pats), text)

---------------------------------------------------------------------------
(* The calls on the pattern store *)

Mt == <<"m", "t">>
Mtg == <<"m", "t", "g">>
Call_ == <<"c">>
Meeting == <<"M", "e", "e", "t", "i", "n", "g">>
MeetingWithTeam ==
    <<"M", "e", "e", "t", "i", "n", "g", " ", "w", "i", "t", "h", " ",
      "t", "e", "a", "m">>

Prefixes == {Mt, Mtg, Call_}
FullTexts == {Meeting, MeetingWithTeam, Mt}
Texts == {Mtg, Mt, Mtg \o <<" ", "3">>, <<"m">>, BuyGroceries}

PatApply(op, prefix, text, r) ==
    /\ patterns' = r.items
    /\ config' = r.file
    /\ call' = Call(op, 0, prefix, text, r)
    /\ old' = Snapshot
    /\ written' = (written \/ r.saved)
    /\ UNCHANGED <<fixture, constructed, storage, items, patterns_type, now,
                   cli>>

\* PatternManager(config_path): a fresh object on the file
NewPatternManager ==
    /\ fixture = "pattern_manager"
    /\ LET l == load_patterns(config)
       IN  /\ patterns' = l.patterns
           /\ patterns_type' = l.type
           /\ constructed' = (l.exc = "")
           /\ call' = Call("PatternManager", 0, <<>>, <<>>,
                            Outcome(l.patterns, config, Absent, FALSE, l.exc))
    /\ old' = Snapshot
    /\ UNCHANGED <<fixture, storage, items, config, written, now, cli>>

AddPattern(prefix, full_text) ==
    /\ fixture = "pattern_manager" /\ constructed
    /\ DictHas(patterns, prefix) \/ Len(patterns) < MaxPatterns
    /\ PatApply("add_pattern", prefix, full_text,
                add_pattern(patterns, patterns_type, config, prefix, full_text))

RemovePattern(prefix) ==
    /\ fixture = "pattern_manager" /\ constructed
    /\ PatApply("remove_pattern", prefix, <<>>,
                remove_pattern(patterns, patterns_type, config, prefix))

ExpandText(text) ==
    /\ fixture = "pattern_manager" /\ constructed
    /\ PatApply("expand_text", <<>>, text,
                IF patterns_type = "dict"
                THEN Outcome(patterns, config, expand_text(patterns, text),
                             FALSE, "")
                ELSE Outcome(patterns, config, <<>>, FALSE, "AttributeError"))

---------------------------------------------------------------------------
(* main: one command-line invocation is a process that parses its
   arguments, constructs a TodoList and a PatternManager (each loads its
   file), runs the branch of its command, and exits.  A store method that
   saves opens the file for writing, which truncates it, and writes the
   document when the file is closed: two steps, between which another process
   can read or write the file.  The write starts at offset 0 and does not
   truncate. *)

Procs == {1, 2}

Args(command, index, prefix, text, filter) ==
    [command |-> command, index |-> index, prefix |-> prefix, text |-> text,
     filter |-> filter]

\* The arguments create_parser accepts, over the model's values; index is
\* 1-based
CliTexts == {Mt}
CliPrefixes == {Mt}
CliFullTexts == {Meeting}
CliIndices == (0 - 1) .. (MaxItems + 1)
Commands ==
    {Args("add", 0, <<>>, text, "") : text \in CliTexts}
    \cup {Args("list", 0, <<>>, <<>>, f) : f \in {"all", "pending", "completed"}}
    \cup {Args(c, i, <<>>, <<>>, "") :
            c \in {"complete", "uncomplete", "remove"}, i \in CliIndices}
    \cup {Args("clear", 0, <<>>, <<>>, "")}
    \cup {Args("pattern add", 0, pre, text, "") :
            pre \in CliPrefixes, text \in CliFullTexts}
    \cup {Args("pattern remove", 0, pre, <<>>, "") : pre \in CliPrefixes}
    \cup {Args("pattern list", 0, <<>>, <<>>, "")}
    \cup {Args("pattern", 0, <<>>, <<>>, "")}
    \cup {Args("expand", 0, <<>>, text, "") : text \in CliTexts}
    \cup {Args("", 0, <<>>, <<>>, "")}

\* A process of main
Idle ==
    [pc |-> "idle", args |-> Args("", 0, <<>>, <<>>, ""),
     start |-> [storage |-> Missing, config |-> Missing],
     items |-> <<>>, patterns |-> <<>>, patterns_type |-> "dict",
     target |-> "", pending |-> Missing, overlaid |-> Empty, last |-> "",
     exit |-> 0, out |-> <<>>]

\* for i, item in enumerate(items, 1): print(f"{i}. {item}")
Enumerate(its) == [i \in 1..Len(its) |-> [number |-> i, item |-> its[i]]]

\* The end of a branch of main: the file its store method saves ("" for
\* none) and the document, the exit status, the lines printed by list
Branch(target, r, status, out) ==
    [target |-> IF r.saved THEN target ELSE "", pending |-> r.file,
     exit |-> IF r.exc # "" THEN 1 ELSE status, out |-> out]

NoOutcome == Outcome(<<>>, Missing, Absent, FALSE, "")

\* The branches of main, on the stores as loaded
main(args, its, pats, type, sfile, cfile, t) ==
    IF args.command = "add"
    THEN IF type # "dict"
         THEN Branch("", Outcome(its, sfile, Absent, FALSE, "AttributeError"),
                     1, <<>>)
         ELSE Branch("storage",
                     add(its, sfile, expand_text(pats, args.text), t), 0, <<>>)
    ELSE IF args.command = "list"
    THEN LET r == IF args.filter = "pending" THEN list_pending(its, sfile)
                  ELSE IF args.filter = "completed"
                       THEN list_completed(its, sfile)
                       ELSE list_all(its, sfile)
         IN  Branch("", r, 0, Enumerate(r.ret))
    ELSE IF args.command = "complete"
    THEN LET r == complete(its, sfile, args.index - 1, t)
         IN  Branch("storage", r, IF r.ret THEN 0 ELSE 1, <<>>)
    ELSE IF args.command = "uncomplete"
    THEN LET r == uncomplete(its, sfile, args.index - 1)
         IN  Branch("storage", r, IF r.ret THEN 0 ELSE 1, <<>>)
    ELSE IF args.command = "remove"
    THEN LET r == remove(its, sfile, args.index - 1)
         IN  Branch("storage", r, IF r.ret # Absent THEN 0 ELSE 1, <<>>)
    ELSE IF args.command = "clear"
    THEN Branch("storage", clear_completed(its, sfile), 0, <<>>)
    ELSE IF args.command = "pattern add"
    THEN Branch("config", add_pattern(pats, type, cfile, args.prefix, args.text),
                0, <<>>)
    ELSE IF args.command = "pattern remove"
    THEN LET r == remove_pattern(pats, type, cfile, args.prefix)
         IN  Branch("config", r, IF r.ret THEN 0 ELSE 1, <<>>)
    ELSE IF args.command = "expand"
    THEN Branch("", Outcome(its, sfile, Absent, FALSE,
                            IF type # "dict" THEN "AttributeError" ELSE ""),
                0, <<>>)
    ELSE Branch("", NoOutcome, 0, <<>>)

\* A write that leaves a file another process has filled as it is
Overlay_exclusive(existing, mine) ==
    IF existing.kind = "empty" THEN {mine} ELSE {existing}

\* The length of datetime.now().isoformat(), a stored timestamp
TimestampBytes == 26

\* The bytes json.dump(..., indent=2) writes for one item: four indented
\* "key": value lines in braces
ItemBytes(d) ==
    85 + Len(d.text) + (IF d.completed THEN 4 ELSE 5) + TimestampBytes
       + (IF d.completed_at = JsonNull THEN 4 ELSE TimestampBytes + 2)

\* The bytes json.dump(..., indent=2) writes for one pattern
EntryBytes(e) == 8 + Len(e[1]) + Len(e[2])

RECURSIVE SumBytes(_, _)
SumBytes(data, array) ==
    IF data = <<>> THEN 0
    ELSE (IF array THEN ItemBytes(Head(data)) ELSE EntryBytes(Head(data)))
         + SumBytes(Tail(data), array)

\* The length of a file that holds a document written by save or
\* save_patterns, 0 for a file just opened for writing
Bytes(file) ==
    IF file.kind = "empty" THEN 0
    ELSE IF file.data = <<>> THEN 2
    ELSE 4 + SumBytes(file.data, file.kind = "array") + 2 * (Len(file.data) - 1)

\* What the file holds after `mine` is written from offset 0 over
\* `existing`: the document alone when the file held nothing longer; the
\* document followed by the rest of a longer content otherwise, which is no
\* JSON.  The length of content that is no document is not modelled: over it
\* both can happen.
Overlay(existing, mine) ==
    IF existing.kind \in {"empty", "array", "object"}
    THEN IF Bytes(existing) <= Bytes(mine) THEN {mine} ELSE {BadJson}
    ELSE {mine, BadJson}

ProcUnchanged ==
    UNCHANGED <<fixture, constructed, items, patterns, patterns_type, written,
                now, call, old>>

\* The length of the collection a file holds, 0 when it holds none
Held(file) == IF file.kind \in {"array", "object"} THEN Len(file.data) ELSE 0

\* The shell starts main with the arguments args
Invoke(p, args) ==
    /\ cli[p].pc = "idle"
    /\ args.command = "add" => Held(storage) < MaxItems
    /\ args.command = "pattern add"
          => \/ Held(config) < MaxPatterns
             \/ config.kind = "object" /\ DictHas(config.data, args.prefix)
    /\ cli' = [cli EXCEPT ![p] =
                 [Idle EXCEPT !.pc = "start", !.args = args,
                              !.start = [storage |-> storage, config |-> config]]]
    /\ UNCHANGED <<storage, config>>
    /\ ProcUnchanged

\* todo_list = TodoList(args.todo_file)
LoadTodo(p) ==
    /\ cli[p].pc = "start"
    /\ LET l == load(storage, now)
       IN  cli' = [cli EXCEPT ![p] =
                     IF l.exc # "" THEN [@ EXCEPT !.pc = "done", !.exit = 1]
                     ELSE [@ EXCEPT !.pc = "todo_list", !.items = l.items]]
    /\ UNCHANGED <<storage, config>>
    /\ ProcUnchanged

\* pattern_manager = PatternManager(args.pattern_file)
LoadPatterns(p) ==
    /\ cli[p].pc = "todo_list"
    /\ LET l == load_patterns(config)
       IN  cli' = [cli EXCEPT ![p] =
                     IF l.exc # "" THEN [@ EXCEPT !.pc = "done", !.exit = 1]
                     ELSE [@ EXCEPT !.pc = "loaded", !.patterns = l.patterns,
                                    !.patterns_type = l.type]]
    /\ UNCHANGED <<storage, config>>
    /\ ProcUnchanged

\* The branch of the command, up to the end of main or to the open(..., 'w')
\* of the save it makes
Run(p) ==
    /\ cli[p].pc = "loaded"
    /\ LET c == cli[p]
           b == main(c.args, c.items, c.patterns, c.patterns_type,
                     storage, config, now)
       IN  /\ cli' = [cli EXCEPT ![p] =
                        [@ EXCEPT !.pc = IF b.target = "" THEN "done"
                                         ELSE "saving",
                                  !.target = b.target, !.pending = b.pending,
                                  !.exit = b.exit, !.out = b.out]]
           /\ storage' = IF b.target = "storage" THEN Empty ELSE storage
           /\ config' = IF b.target = "config" THEN Empty ELSE config
    /\ ProcUnchanged

\* json.dump and the close of the file, then the rest of main
Write(p) ==
    /\ cli[p].pc = "saving"
    /\ LET c == cli[p]
           existing == IF c.target = "storage" THEN storage ELSE config
       IN  \E content \in Overlay(existing, c.pending) :
              /\ storage' = IF c.target = "storage" THEN content ELSE storage
              /\ config' = IF c.target = "config" THEN content ELSE config
              /\ cli' = [q \in Procs |->
                           IF q = p
                           THEN [c EXCEPT !.pc = "done", !.last = c.target,
                                          !.overlaid = existing]
                           ELSE IF cli[q].last = c.target
                                THEN [cli[q] EXCEPT !.last = ""]
                                ELSE cli[q]]
    /\ ProcUnchanged

\* The process has exited; the shell is ready for the next command
Reap(p) ==
    /\ cli[p].pc = "done"
    /\ cli' = [cli EXCEPT ![p] = Idle]
    /\ UNCHANGED <<storage, config>>
    /\ ProcUnchanged

---------------------------------------------------------------------------
(* Initial files *)

InitStorage ==
    {Missing, Unreadable, BadJson, BadUtf8, JsonScalar,
     JsonArray(<<>>),
     JsonArray(<<[text |-> BuyGroceries]>>),
     JsonArray(<<[completed |-> TRUE]>>)}

InitConfig ==
    {Missing, Unreadable, BadJson, BadUtf8,
     JsonArray(<<>>),
     JsonObject(<<>>),
     JsonObject(<<<<Mt, Meeting>>>>)}

NoCall == Call("", 0, <<>>, <<>>, Outcome(<<>>, Missing, Absent, FALSE, ""))

Init ==
    /\ fixture \in {"todo_list", "pattern_manager"}
    /\ storage \in (IF fixture = "todo_list" THEN InitStorage ELSE {Missing})
    /\ config \in (IF fixture = "pattern_manager" THEN InitConfig ELSE {Missing})
    /\ constructed = FALSE
    /\ items = <<>>
    /\ patterns = <<>>
    /\ patterns_type = "dict"
    /\ written = FALSE
    /\ now = 1
    /\ call = NoCall
    /\ old = [items |-> <<>>, storage |-> storage, patterns |-> <<>>,
              config |-> config, constructed |-> FALSE]
    /\ cli = [p \in Procs |-> Idle]

Next ==
    \/ NewTodoList
    \/ \E text \in ItemTexts : Add(text)
    \/ \E index \in Indices : Remove(index)
    \/ \E index \in Indices : Complete(index)
    \/ \E index \in Indices : Uncomplete(index)
    \/ ClearCompleted
    \/ ListAll
    \/ ListPending
    \/ ListCompleted
    \/ NewPatternManager
    \/ \E prefix \in Prefixes, full_text \in FullTexts :
          AddPattern(prefix, full_text)
    \/ \E prefix \in Prefixes : RemovePattern(prefix)
    \/ \E text \in Texts : ExpandText(text)
    \/ Tick

Spec == Init /\ [][Next]_vars

---------------------------------------------------------------------------
(* Command-line use: one invocation after the other *)

CliStorage == {Missing, BadUtf8, JsonArray(<<>>)}
CliConfig == {Missing, JsonArray(<<>>), JsonObject(<<>>)}

InitMain(storages, configs) ==
    /\ fixture = "main"
    /\ storage \in storages
    /\ config \in configs
    /\ constructed = FALSE
    /\ items = <<>>
    /\ patterns = <<>>
    /\ patterns_type = "dict"
    /\ written = FALSE
    /\ now = 1
    /\ call = NoCall
    /\ old = [items |-> <<>>, storage |-> storage, patterns |-> <<>>,
              config |-> config, constructed |-> FALSE]
    /\ cli = [p \in Procs |-> Idle]

InitCLI == InitMain(CliStorage, CliConfig)

NextCLI ==
    \/ \E args \in Commands : Invoke(1, args)
    \/ LoadTodo(1)
    \/ LoadPatterns(1)
    \/ Run(1)
    \/ Write(1)
    \/ Reap(1)

SpecCLI == InitCLI /\ [][NextCLI]_vars

---------------------------------------------------------------------------
(* Two invocations at once on the same files, each run once *)

RaceStorage ==
    {save(<<>>),
     save(<<TodoItem(BuyGroceries, FALSE, isoformat(1), None, 1)>>)}
RaceConfig == {save_patterns(<<>>), save_patterns(<<<<Mt, Meeting>>>>)}

InitRace == InitMain(RaceStorage, RaceConfig)

NextRace ==
    \E p \in Procs :
        \/ \E args \in Commands : Invoke(p, args)
        \/ LoadTodo(p)
        \/ LoadPatterns(p)
        \/ Run(p)
        \/ Write(p)

SpecRace == InitRace /\ [][NextRace]_vars

---------------------------------------------------------------------------
(* Vocabulary of the properties *)

TodoMutators == {"add", "remove", "complete", "uncomplete", "clear_completed"}
PatternMutators == {"add_pattern", "remove_pattern"}
IndexCalls == {"remove", "complete", "uncomplete"}

\* The last call returned to its caller
Returned == call.exc = ""

\* index addresses a record of its
Valid(index, its) == index \in 0..(Len(its) - 1)

\* The last call was a mutating call that took effect
TookEffect ==
    \/ call.op \in {"add", "clear_completed", "add_pattern"}
    \/ call.op \in IndexCalls /\ Valid(call.index, old.items)
    \/ call.op = "remove_pattern"
         /\ \E i \in 1..Len(old.patterns) : old.patterns[i][1] = call.prefix

\* The file holds exactly the collection: the JSON array of the records in
\* order (null for None), or no file at all for the empty collection
HoldsItems(file, its) ==
    \/ /\ file.kind = "array"
       /\ Len(file.data) = Len(its)
       /\ \A i \in 1..Len(its) :
            /\ DOMAIN file.data[i] =
                 {"text", "completed", "created_at", "completed_at"}
            /\ file.data[i].text = its[i].text
            /\ file.data[i].completed = its[i].completed
            /\ file.data[i].created_at = its[i].created_at
            /\ IF its[i].completed_at = None
               THEN file.data[i].completed_at = JsonNull
               ELSE file.data[i].completed_at = its[i].completed_at
    \/ file.kind = "missing" /\ its = <<>>

\* The file holds exactly the mapping: the JSON object of its entries in order
HoldsPatterns(file, pats) ==
    \/ file.kind = "object" /\ file.data = pats
    \/ file.kind = "missing" /\ pats = <<>>

\* prefix is a leading substring of text
LeadingSubstring(prefix, text) ==
    \E n \in 0..Len(text) : prefix = [i \in 1..n |-> text[i]]

\* The positions of the stored prefixes that are leading substrings of text
Matches(pats, text) ==
    {i \in 1..Len(pats) : LeadingSubstring(pats[i][1], text)}

\* The earliest inserted of them
FirstMatch(pats, text) ==
    CHOOSE i \in Matches(pats, text) : \A j \in Matches(pats, text) : i <= j

---------------------------------------------------------------------------
(* C1 as stated: after every mutating call of either store returns, whatever
   its arguments and whatever the file held at construction, the file's
   content equals the in-memory collection or mapping. *)
C1_SyncAfterEveryCall ==
    /\ (call.op \in TodoMutators /\ Returned) => HoldsItems(storage, items)
    /\ (call.op \in PatternMutators /\ Returned)
          => HoldsPatterns(config, patterns)

(* C1 amended: after every mutating call that takes effect returns, the file
   was written and holds exactly the in-memory collection or mapping; a
   mutating call that fails (index out of range, prefix not stored) writes
   nothing and leaves file and memory as they were. *)
C1_SyncAfterEffectiveCall ==
    /\ (call.op \in TodoMutators /\ Returned /\ TookEffect)
          => (call.saved /\ storage.kind = "array"
              /\ HoldsItems(storage, items))
    /\ (call.op \in PatternMutators /\ Returned /\ TookEffect)
          => (call.saved /\ config.kind = "object"
              /\ HoldsPatterns(config, patterns))
    /\ (call.op \in TodoMutators \cup PatternMutators /\ Returned
          /\ ~TookEffect)
          => (/\ ~call.saved
              /\ storage = old.storage /\ items = old.items
              /\ config = old.config /\ patterns = old.patterns)

\* A second record was added to a store whose file held a first one
C1_Witness ==
    /\ call.op = "add" /\ Returned
    /\ Len(items) = 2 /\ Len(old.storage.data) = 1
    /\ items[1].completed

(* C2 as stated: after any sequence of operations on a store, a fresh store
   constructed on the same file holds the identical ordered records, or the
   identical mapping in the same order. *)
C2_FreshStoreIdentical ==
    /\ (call.op = "TodoList" /\ old.constructed)
          => (Returned /\ items = old.items)
    /\ (call.op = "PatternManager" /\ old.constructed)
          => (Returned /\ patterns = old.patterns)

(* C2 amended: the same, for the item store once a store has written the
   file (at least one mutating call took effect); for the pattern store
   always. *)
C2_FreshStoreIdenticalOnceWritten ==
    /\ (call.op = "TodoList" /\ old.constructed /\ written)
          => (Returned /\ items = old.items)
    /\ (call.op = "PatternManager" /\ old.constructed)
          => (Returned /\ patterns = old.patterns)

\* A fresh store read back two records, one completed and one pending
C2_Witness ==
    /\ call.op = "TodoList" /\ old.constructed /\ written
    /\ Len(items) = 2
    /\ items[1].completed /\ items[1].completed_at # items[1].created_at
    /\ ~items[2].completed

(* C3: expand_text is first match in insertion order: when some stored prefix
   is a leading substring of the text, the result is the expansion of the
   earliest inserted such prefix followed by the text without its first
   len(prefix) characters, whatever longer prefixes were inserted later; with
   mt -> Meeting inserted before mtg -> Meeting with team, expand_text(mtg)
   is Meetingg. *)
C3_FirstMatchWins ==
    (call.op = "expand_text" /\ Returned)
       => /\ Matches(patterns, call.text) # {}
             => LET p == patterns[FirstMatch(patterns, call.text)]
                IN  call.ret =
                      p[2] \o [i \in 1..(Len(call.text) - Len(p[1])) |->
                                  call.text[Len(p[1]) + i]]
          /\ (patterns = <<<<Mt, Meeting>>, <<Mtg, MeetingWithTeam>>>>
                /\ call.text = Mtg)
             => call.ret = <<"M", "e", "e", "t", "i", "n", "g", "g">>

\* The scenario of the claim
C3_Witness ==
    /\ call.op = "expand_text" /\ Returned
    /\ patterns = <<<<Mt, Meeting>>, <<Mtg, MeetingWithTeam>>>>
    /\ call.text = Mtg
    /\ call.ret = Meeting \o <<"g">>

(* C4 as stated: expand_text returns the text unchanged if and only if no
   stored prefix is a leading substring of it. *)
C4_UnchangedIffNoMatch ==
    (call.op = "expand_text" /\ Returned)
       => (call.ret = call.text <=> Matches(patterns, call.text) = {})

(* C4 amended: expand_text returns the text unchanged if and only if no
   stored prefix is a leading substring of it, or the earliest inserted one
   that is has an expansion equal to itself. *)
C4_UnchangedIffNoMatchOrSelf ==
    (call.op = "expand_text" /\ Returned)
       => (call.ret = call.text
             <=> \/ Matches(patterns, call.text) = {}
                 \/ LET p == patterns[FirstMatch(patterns, call.text)]
                    IN  p[2] = p[1])

\* A text longer than the prefix it starts with was given and expanded
C4_Witness ==
    /\ call.op = "expand_text" /\ Returned
    /\ Matches(patterns, call.text) # {}
    /\ Len(call.text) > Len(patterns[FirstMatch(patterns, call.text)][1])
    /\ call.ret # call.text

(* C5: for every index i with 0 <= i < length, remove(i) returns the record
   that was at position i, the length decreases by exactly 1, the records
   before i keep their index and those after i move down by one, all with
   their fields unchanged. *)
C5_RemoveValid ==
    (call.op = "remove" /\ Valid(call.index, old.items))
       => /\ Returned
          /\ call.ret = Some(old.items[call.index + 1])
          /\ Len(items) = Len(old.items) - 1
          /\ \A j \in 1..Len(items) :
               items[j] = IF j <= call.index THEN old.items[j]
                          ELSE old.items[j + 1]

\* The first of two different records was removed
C5_Witness ==
    /\ call.op = "remove" /\ call.index = 0
    /\ Len(old.items) = 2 /\ old.items[1] # old.items[2]
    /\ items = <<old.items[2]>>

(* C6: for every index outside [0, length), negative ones and i = length
   included, remove(i) returns None and complete(i) and uncomplete(i) return
   false, no exception is raised, the records and their order are unchanged
   and the file is not written. *)
C6_InvalidIndex ==
    (call.op \in IndexCalls /\ ~Valid(call.index, old.items))
       => /\ Returned
          /\ IF call.op = "remove" THEN call.ret = Absent
             ELSE call.ret = FALSE
          /\ items = old.items
          /\ ~call.saved
          /\ storage = old.storage

\* A negative index was given to a store that holds records
C6_Witness ==
    /\ call.op \in IndexCalls /\ call.index < 0
    /\ Len(old.items) = 2 /\ Len(items) = 2

\* The number of records of its that are completed
CompletedCount(its) == Cardinality({i \in 1..Len(its) : its[i].completed})

\* The position in its of its j-th record that is not completed
Pending(its, j) ==
    CHOOSE i \in 1..Len(its) :
        /\ ~its[i].completed
        /\ Cardinality({m \in 1..(i - 1) : ~its[m].completed}) = j - 1

(* C7: clear_completed() returns the number of records that were completed
   just before the call, removes exactly those, leaves every record that was
   not completed in place in its previous relative order, and writes the
   file even when that number is 0. *)
C7_ClearCompleted ==
    (call.op = "clear_completed")
       => /\ Returned
          /\ call.ret = CompletedCount(old.items)
          /\ Len(items) = Len(old.items) - CompletedCount(old.items)
          /\ \A j \in 1..Len(items) : items[j] = old.items[Pending(old.items, j)]
          /\ call.saved
          /\ storage.kind = "array" /\ HoldsItems(storage, items)

\* The first of two records was completed and cleared, the second stayed
C7_Witness ==
    /\ call.op = "clear_completed" /\ call.ret = 1
    /\ Len(old.items) = 2 /\ old.items[1].completed
    /\ items = <<old.items[2]>>

(* C8: constructing either store on a file that is missing, unreadable or
   holds malformed or corrupt content surfaces no error and gives the empty
   collection or mapping. *)
C8_BadFileIsEmptyStore ==
    /\ (call.op = "TodoList"
          /\ old.storage.kind \in {"missing", "unreadable", "badjson", "badutf8"})
          => (Returned /\ constructed /\ items = <<>>)
    /\ (call.op = "PatternManager"
          /\ old.config.kind \in {"missing", "unreadable", "badjson", "badutf8"})
          => (Returned /\ constructed /\ patterns = <<>>)

(* C9: add_pattern is an upsert that keeps insertion order: a prefix already
   stored gets the new expansion at its original position, a new prefix goes
   last, every other entry and the order of the others are unchanged; this is
   the order list_patterns and find_matching_patterns give and the order a
   store reloaded from the file has. *)
C9_UpsertKeepsOrder ==
    (call.op = "add_pattern" /\ Returned)
       => /\ IF \E i \in 1..Len(old.patterns) : old.patterns[i][1] = call.prefix
             THEN /\ Len(patterns) = Len(old.patterns)
                  /\ \A i \in 1..Len(patterns) :
                       patterns[i] =
                         IF old.patterns[i][1] = call.prefix
                         THEN <<call.prefix, call.text>>
                         ELSE old.patterns[i]
             ELSE /\ Len(patterns) = Len(old.patterns) + 1
                  /\ patterns[Len(patterns)] = <<call.prefix, call.text>>
                  /\ \A i \in 1..Len(old.patterns) : patterns[i] = old.patterns[i]
          /\ list_patterns(patterns) = patterns
          /\ find_matching_patterns(patterns, <<>>) = patterns
          /\ load_patterns(config).patterns = patterns

\* The first of two stored prefixes was given a different expansion
C9_Witness ==
    /\ call.op = "add_pattern" /\ Returned
    /\ Len(old.patterns) = 2
    /\ old.patterns[1][1] = call.prefix /\ old.patterns[1][2] # call.text
    /\ patterns[1] = <<call.prefix, call.text>>

(* C10: for every index i with 0 <= i < length, complete(i) returns true and
   sets completed to true and completed_at to the current time on record i,
   also when the record was completed already; uncomplete(i) returns true and
   sets completed to false and completed_at to None on record i; neither
   changes the text or created_at of record i, any other record, or the
   order. *)
C10_CompleteUncomplete ==
    (call.op \in {"complete", "uncomplete"} /\ Valid(call.index, old.items))
       => /\ Returned
          /\ call.ret = TRUE
          /\ Len(items) = Len(old.items)
          /\ \A j \in 1..Len(items) :
               IF j # call.index + 1 THEN items[j] = old.items[j]
               ELSE /\ items[j].text = old.items[j].text
                    /\ items[j].created_at = old.items[j].created_at
                    /\ items[j].completed = (call.op = "complete")
                    /\ items[j].completed_at =
                         IF call.op = "complete" THEN isoformat(call.time)
                         ELSE None

\* A record completed earlier was completed again, later
C10_Witness ==
    /\ call.op = "complete" /\ Valid(call.index, old.items)
    /\ old.items[call.index + 1].completed
    /\ old.items[call.index + 1].completed_at # isoformat(call.time)
    /\ items[call.index + 1].completed_at = isoformat(call.time)

\* A process of main that has exited
Exited(p) == cli[p].pc = "done"

\* The invocation is one the store refuses: an index command whose 1-based
\* index is outside 1..length, or the removal of a prefix that is not stored
Refused(c) ==
    \/ /\ c.args.command \in {"complete", "uncomplete", "remove"}
       /\ c.args.index \notin 1..Len(c.items)
    \/ /\ c.args.command = "pattern remove"
       /\ ~ DictHas(c.patterns, c.args.prefix)

(* C11: an invocation exits with status 1 exactly when it is complete,
   uncomplete or remove with a 1-based index outside 1..length, or pattern
   remove with a prefix that is not in the mapping; every other invocation
   exits with status 0; an invocation that exits with 1 leaves both files as
   they were when it started. *)
C11_ExitStatus ==
    \A p \in Procs :
        Exited(p)
           => /\ cli[p].exit = (IF Refused(cli[p]) THEN 1 ELSE 0)
              /\ cli[p].exit = 1
                    => /\ storage = cli[p].start.storage
                       /\ config = cli[p].start.config

(* C12: add(text) appends exactly one new record at the end, with the given
   text, completed false and completed_at None, returns that record,
   increases the length by exactly 1 and leaves every record held before and
   their order unchanged; on an empty store add('Buy groceries') gives length
   1 with that text. *)
C12_AddAppends ==
    (call.op = "add")
       => /\ Returned
          /\ Len(items) = Len(old.items) + 1
          /\ \A j \in 1..Len(old.items) : items[j] = old.items[j]
          /\ items[Len(items)].text = call.text
          /\ items[Len(items)].completed = FALSE
          /\ items[Len(items)].completed_at = None
          /\ items[Len(items)].created_at = isoformat(call.time)
          /\ call.ret = items[Len(items)]
          /\ (old.items = <<>> /\ call.text = BuyGroceries)
                => (Len(items) = 1 /\ items[1].text = BuyGroceries)

\* A record was added to a store that held a different one
C12_Witness ==
    /\ call.op = "add" /\ Len(old.items) = 1
    /\ old.items[1].text # call.text
    /\ items = <<old.items[1], call.ret>>

\* The positions of the records of its whose completed flag is flag
Where(its, flag) == {i \in 1..Len(its) : its[i].completed = flag}

\* The j-th smallest position of a set of positions
Nth(S, j) == CHOOSE i \in S : Cardinality({m \in S : m < i}) = j - 1

\* res is the records of its at the positions S, in their order in its
Selects(res, its, S) ==
    /\ Len(res) = Cardinality(S)
    /\ \A j \in 1..Len(res) : res[j] = its[Nth(S, j)]

(* C13: in every state of the store, list_pending() is the subsequence of the
   records that are not completed and list_completed() that of the completed
   ones, each in the original order; every record is in exactly one of them;
   list_all() is all the records in order; calling any of the three leaves
   the store and the file unchanged. *)
C13_ListsPartition ==
    /\ Selects(list_pending(items, storage).ret, items, Where(items, FALSE))
    /\ Selects(list_completed(items, storage).ret, items, Where(items, TRUE))
    /\ Selects(list_all(items, storage).ret, items, 1..Len(items))
    /\ Where(items, FALSE) \cup Where(items, TRUE) = 1..Len(items)
    /\ Where(items, FALSE) \cap Where(items, TRUE) = {}
    /\ Len(list_pending(items, storage).ret)
         + Len(list_completed(items, storage).ret) = Len(items)
    /\ (call.op \in {"list_all", "list_pending", "list_completed"})
          => /\ Returned
             /\ items = old.items
             /\ storage = old.storage
             /\ ~call.saved
             /\ call.ret = (IF call.op = "list_all" THEN items
                            ELSE IF call.op = "list_pending"
                                 THEN list_pending(old.items, old.storage).ret
                                 ELSE list_completed(old.items, old.storage).ret)

\* list_pending gave the second of two records, the first being completed
C13_Witness ==
    /\ call.op = "list_pending"
    /\ Len(items) = 2 /\ items[1].completed /\ ~items[2].completed
    /\ call.ret = <<items[2]>>

(* C14: remove_pattern(prefix) on a stored prefix returns true, deletes
   exactly that entry and writes the file, after which get_pattern(prefix)
   is absent and every other entry keeps its expansion and relative order;
   on a prefix that is not stored it returns false, leaves the mapping
   unchanged and does not write the file. *)
C14_RemovePattern ==
    (call.op = "remove_pattern")
       => /\ Returned
          /\ LET S == {i \in 1..Len(old.patterns) :
                          old.patterns[i][1] # call.prefix}
             IN  IF S # 1..Len(old.patterns)
                 THEN /\ call.ret = TRUE
                      /\ Len(patterns) = Len(old.patterns) - 1
                      /\ \A j \in 1..Len(patterns) :
                           patterns[j] = old.patterns[Nth(S, j)]
                      /\ get_pattern(patterns, call.prefix) = Absent
                      /\ call.saved
                      /\ config.kind = "object" /\ config.data = patterns
                 ELSE /\ call.ret = FALSE
                      /\ patterns = old.patterns
                      /\ ~call.saved
                      /\ config = old.config

\* The first of two stored prefixes was removed
C14_Witness ==
    /\ call.op = "remove_pattern" /\ call.ret = TRUE
    /\ Len(old.patterns) = 2 /\ old.patterns[1][1] = call.prefix
    /\ patterns = <<old.patterns[2]>>

\* No process of main is between its start and its exit
Final == \A p \in Procs : cli[p].pc \in {"idle", "done"}

\* The item file or the pattern file, by the name a process keeps of it
FileOf(target) == IF target = "storage" THEN storage ELSE config

\* The write of c went over a longer document, which another process had
\* written since c opened the file
Overlapped(c) ==
    /\ c.overlaid.kind \in {"array", "object"}
    /\ Bytes(c.overlaid) > Bytes(c.pending)

(* C15 as stated: once two invocations that ran at the same time on the same
   files have both exited, each file holds exactly the document of the last
   process that wrote it. *)
C15_LastWriterWins ==
    \A p \in Procs :
        (Final /\ cli[p].last # "")
           => FileOf(cli[p].last) = cli[p].pending

(* C15: once both invocations have exited, each file holds the document of the
   last process that wrote it, computed from what that process alone had
   loaded, unless the other process wrote a longer document after the last
   writer opened the file: then the file holds the last writer's document
   followed by the rest of the other's, which is no JSON. *)
C15_LastWriterWinsOrGarbles ==
    \A p \in Procs :
        (Final /\ cli[p].last # "")
           => FileOf(cli[p].last) =
                 (IF Overlapped(cli[p]) THEN BadJson ELSE cli[p].pending)

\* Both exited with status 0, one added an item and the other completed item
\* 1; the item file is the document of the one that completed and still holds
\* one item: the added item is lost
C15_Witness ==
    \E p, q \in Procs :
        /\ Final
        /\ cli[q].args.command = "add" /\ cli[q].exit = 0
        /\ cli[q].target = "storage"
        /\ cli[p].args.command = "complete" /\ cli[p].exit = 0
        /\ cli[p].last = "storage"
        /\ storage = cli[p].pending
        /\ Len(storage.data) = 1
        /\ Len(cli[q].pending.data) = 2

(* C16: for every filter, the number the list command prints beside an item
   is the 1-based position of that item in the sequence the store holds, the
   item on which complete, uncomplete or remove with that number acts. *)
C16_ListNumbersArePositions ==
    \A p \in Procs :
        (Exited(p) /\ cli[p].args.command = "list")
           => \A k \in 1..Len(cli[p].out) :
                 /\ cli[p].out[k].number \in 1..Len(cli[p].items)
                 /\ cli[p].items[cli[p].out[k].number] = cli[p].out[k].item

\* The created_at of the records of its, in order
CreatedAt(its) == [i \in 1..Len(its) |-> its[i].created_at]

\* a is b with some of its elements left out
RECURSIVE Subsequence(_, _)
Subsequence(a, b) ==
    IF a = <<>> THEN TRUE
    ELSE IF b = <<>> THEN FALSE
    ELSE IF Head(a) = Head(b) THEN Subsequence(Tail(a), Tail(b))
    ELSE Subsequence(a, Tail(b))

(* C17: in every state reached by add, remove, complete, uncomplete and
   clear_completed calls, with indices in or out of range, every record held
   has completed_at other than None if and only if completed is true, and
   has the created_at it was given when it was added: no call changes the
   created_at of a record it keeps, and add gives the new record the time of
   the call. *)
C17_ItemInvariant ==
    /\ \A i \in 1..Len(items) :
          (items[i].completed_at # None) <=> items[i].completed
    /\ (call.op = "add")
          => CreatedAt(items) = Append(CreatedAt(old.items), isoformat(call.time))
    /\ (call.op \in {"complete", "uncomplete"})
          => CreatedAt(items) = CreatedAt(old.items)
    /\ (call.op \in {"remove", "clear_completed"})
          => Subsequence(CreatedAt(items), CreatedAt(old.items))

\* A record added earlier was completed and then uncompleted, later
C17_Witness ==
    /\ call.op = "uncomplete" /\ Valid(call.index, old.items)
    /\ old.items[call.index + 1].completed
    /\ items[call.index + 1].created_at # isoformat(call.time)
    /\ items[call.index + 1].completed_at = None

====
